---------------------------- MODULE Spec2Model ----------------------------
(***************************************************************************)
(* GeoTag Pro (src/geo_app.py): a Streamlit script that assigns one GPS    *)
(* coordinate to every uploaded image and writes it with exiftool.         *)
(*                                                                         *)
(* Three specifications share this module:                                 *)
(*   Spec     one run of the script body (lines 99-205) up to the call of  *)
(*            process_images;                                              *)
(*   SpecTag  process_images (lines 46-92) on a batch of files;            *)
(*   SpecFn   the numeric helpers applied to drawn inputs.                 *)
(*                                                                         *)
(* Coordinates are fixed-point integers in micro-degrees.  Strings that    *)
(* the code parses are sequences of one-character strings.                 *)
(***************************************************************************)
EXTENDS Integers, Sequences, FiniteSets

VARIABLES
    \* ---- the script run (Spec)
    pc,              \* position in the script body
    uploaded_files,  \* st.file_uploader's value, line 99
    mode,            \* st.radio's value, line 105
    final_targets,   \* line 107
    center,          \* <<clicked_lat, clicked_lon>>, lines 123-130
    radius,          \* slider value in half-kilometres, line 137
    rng,             \* state of the module-level random generator
    city_names,      \* line 150
    unique_coords,   \* dict of line 155, as the sequence of its items
    failed_cities,   \* line 156
    call,            \* the arguments handed to process_images, line 194
    \* ---- process_images (SpecTag)
    tpc,             \* position in process_images
    files,           \* parameter files
    targets,         \* parameter targets
    temp_dir,        \* TRUE while the directory of line 47 exists
    disk,            \* the files in temp_dir: path -> [content, gps]
    next_i,          \* index of the next file_map item to tag
    processed_paths, \* line 48
    tag_log,         \* the set_tags calls that succeeded
    zip_file,        \* entries of geotagged_images.zip on disk
    zip_data,        \* the value returned, line 92
    exc,             \* the stage whose exception is propagating, or "none"
    \* ---- helper functions on drawn inputs (SpecFn)
    fn_pc, fn_arg, fn_res

appVars == <<pc, uploaded_files, mode, final_targets, center, radius, rng,
             city_names, unique_coords, failed_cities, call>>
tagVars == <<tpc, files, targets, temp_dir, disk, next_i, processed_paths,
             tag_log, zip_file, zip_data, exc>>
fnVars  == <<fn_pc, fn_arg, fn_res>>
vars    == <<appVars, tagVars, fnVars>>

(***************************************************************************)
(* Bounds of the model and constants of the program.                       *)
(***************************************************************************)
MAX_FILES == 25

\* Upload batches in Spec have 0 .. MAX_FILES + MaxExtraFiles files.
MaxExtraFiles == 1
\* The text area holds at most MaxTokens separator-delimited tokens.
MaxTokens == 3
\* Batches handed to process_images in SpecTag have 1 .. MaxTagBatch files.
MaxTagBatch == 3
\* Raw longitudes in SpecFn range over -MaxRawDeg .. MaxRawDeg whole degrees.
MaxRawDeg == 545
\* Radii in SpecFn go down to -MaxNegRadius half-kilometres.
MaxNegRadius == 2
\* Pin-mode batches in SpecFn have 0 .. MaxPinFiles files.
MaxPinFiles == 3

Deg == 1000000
Range(s) == {s[k] : k \in DOMAIN s}
Abs(x) == IF x >= 0 THEN x ELSE -x

(***************************************************************************)
(* get_random_point_in_radius, lines 19-32.                                *)
(***************************************************************************)
\* random.random(): the generator is deterministic in its state; a draw
\* returns state/RngMod, a value of [0,1), and advances the state.
RngMod == 4
RandomValue(s) == s
RandomNext(s) == (s + 1) % RngMod

\* radius_km / radius_earth_km as an angle: micro-degrees per half-kilometre
\* (0.5 / 6371 rad = 0.0044966 degrees).
HalfKmMicroDeg == 4497

\* math.sqrt(u) in thousandths, at the values u = k/RngMod a draw can return.
SqrtMilli(k) == CASE k = 0 -> 0 [] k = 1 -> 500 [] k = 2 -> 707 [] k = 3 -> 866

\* math.cos and math.sin of t = 2*pi*v in thousandths, at v = k/RngMod.
CosTurnMilli(k) == CASE k = 0 -> 1000 [] k = 1 -> 0 [] k = 2 -> -1000 [] k = 3 -> 0
SinTurnMilli(k) == CASE k = 0 -> 0 [] k = 1 -> 1000 [] k = 2 -> 0 [] k = 3 -> -1000

\* The coordinates the model's collaborators report.
LosAngeles == <<34052200, -118243700>>
Sydney     == <<-33868800, 151209300>>
NullIsland == <<0, 0>>
Quito      == <<-180000, -78467800>>

\* math.cos(math.radians(lat)) in thousandths, at the latitudes of the model.
CosLatMilli(lat) ==
    CASE lat = LosAngeles[1] -> 829
      [] lat = Sydney[1]     -> 830
      [] lat = Quito[1]      -> 1000
      [] OTHER               -> 1000

IsDegenerateRadiusStrict(radius_km) == radius_km < 0
IsDegenerateRadius(radius_km) == radius_km <= 0

\* Returns the point and the generator state after the call.
get_random_point_in_radius(lat, lon, radius_km, s) ==
    IF IsDegenerateRadius(radius_km)
    THEN [point |-> <<lat, lon>>, rng |-> s]
    ELSE LET r == radius_km * HalfKmMicroDeg
             u == RandomValue(s)
             s1 == RandomNext(s)
             v == RandomValue(s1)
             s2 == RandomNext(s1)
             w == (r * SqrtMilli(u)) \div 1000
             x == (w * CosTurnMilli(v)) \div 1000
             y == (w * SinTurnMilli(v)) \div 1000
             new_lat == x + lat
             new_lon == ((y * 1000) \div CosLatMilli(lat)) + lon
         IN  [point |-> <<new_lat, new_lon>>, rng |-> s2]

\* Lines 140-142: one independent draw per uploaded file.
RECURSIVE PinTargets(_, _, _, _, _)
PinTargets(n, lat, lon, radius_km, s) ==
    IF n = 0
    THEN [targets |-> <<>>, rng |-> s]
    ELSE LET rest == PinTargets(n - 1, lat, lon, radius_km, s)
             p == get_random_point_in_radius(lat, lon, radius_km, rest.rng)
         IN  [targets |-> Append(rest.targets, p.point), rng |-> p.rng]

(***************************************************************************)
(* Longitude normalisation, line 130.  Python's % with a positive divisor  *)
(* returns a value of [0, divisor), as TLA+'s % does.                      *)
(***************************************************************************)
TruncRem(a, b) == IF a >= 0 THEN a % b ELSE -((-a) % b)
NormalizeLongitudeTruncating(raw_lon) == TruncRem(raw_lon + 180 * Deg, 360 * Deg) - 180 * Deg
NormalizeLongitude(raw_lon) == ((raw_lon + 180 * Deg) % (360 * Deg)) - 180 * Deg


(***************************************************************************)
(* Parsing the text area, lines 149-150.                                   *)
(***************************************************************************)
\* city_input.replace("\n", ",")
ReplaceNewlines(text) ==
    [k \in 1..Len(text) |-> IF text[k] = "\n" THEN "," ELSE text[k]]

\* str.split(','): the pieces between commas, empty pieces included.
RECURSIVE SplitComma(_, _)
SplitComma(text, piece) ==
    IF text = <<>>
    THEN <<piece>>
    ELSE IF Head(text) = ","
         THEN <<piece>> \o SplitComma(Tail(text), <<>>)
         ELSE SplitComma(Tail(text), Append(piece, Head(text)))

\* str.strip(): leading and trailing whitespace removed.
IsSpace(ch) == ch \in {" ", "\n"}
RECURSIVE LStrip(_)
LStrip(s) == IF s # <<>> /\ IsSpace(Head(s)) THEN LStrip(Tail(s)) ELSE s
RECURSIVE RStrip(_)
RStrip(s) ==
    IF s # <<>> /\ IsSpace(s[Len(s)]) THEN RStrip(SubSeq(s, 1, Len(s) - 1)) ELSE s
Strip(s) == LStrip(RStrip(s))

\* [c.strip() for c in raw_text.split(',') if c.strip()]
IsTruthy(s) == s # <<>>
ParseCities(city_input) ==
    LET pieces == SplitComma(ReplaceNewlines(city_input), <<>>)
        kept == SelectSeq(pieces, LAMBDA c : IsTruthy(Strip(c)))
    IN  [k \in 1..Len(kept) |-> Strip(kept[k])]

\* The texts the user types: up to MaxTokens tokens joined by separators.
TokenTexts ==
    {<<>>, <<" ">>, <<"a">>, <<"b">>, <<"c">>, <<" ", "a">>, <<"b", " ">>}
Separators == {",", "\n"}
RECURSIVE TextsOf(_)
TextsOf(k) ==
    IF k = 1
    THEN TokenTexts
    ELSE {t \o <<sep>> \o tok :
            t \in TextsOf(k - 1), sep \in Separators, tok \in TokenTexts}
CityInputs == UNION {TextsOf(k) : k \in 1..MaxTokens}
ParsedInputs == {ParseCities(t) : t \in CityInputs}

(***************************************************************************)
(* The "List of Cities" branch, lines 152-188.                             *)
(***************************************************************************)
\* list(set(city_names)): the distinct names in an order the set chooses.
SetOrders(S) == {s \in [1..Cardinality(S) -> S] : Range(s) = S}

\* geocoder.arcgis(city): a coordinate (g.ok) or no result.
Unresolved == <<>>
GeoCoords == {LosAngeles, Sydney}
GeoAnswers(names) == [names -> GeoCoords \cup {Unresolved}]

\* Lines 161-170: the dict keeps its items in insertion order.
RECURSIVE Lookup(_, _)
Lookup(unique_cities, answer) ==
    IF unique_cities = <<>>
    THEN [coords |-> <<>>, failed |-> <<>>]
    ELSE LET city == Head(unique_cities)
             rest == Lookup(Tail(unique_cities), answer)
         IN  IF answer[city] # Unresolved
             THEN [coords |-> <<<<city, answer[city]>>>> \o rest.coords,
                   failed |-> rest.failed]
             ELSE [coords |-> rest.coords, failed |-> <<city>> \o rest.failed]

Keys(d) == {d[k][1] : k \in DOMAIN d}
Values(d) == [k \in DOMAIN d |-> d[k][2]]
Get(d, key) == (CHOOSE k \in DOMAIN d : d[k][1] = key) \* d[key]
ValueOf(d, key) == d[Get(d, key)][2]

\* city_names[i % len(city_names)], i counted from 0.
CyclicCityClamped(names, i) == names[IF i < Len(names) THEN i + 1 ELSE Len(names)]
CyclicCity(names, i) == names[(i % Len(names)) + 1]

\* list(unique_coords.values())[0]
FallbackCoordinateDefault(d) == NullIsland
FallbackCoordinate(d) == Values(d)[1]

\* Lines 183-188, for i in range(n).
RECURSIVE AssignCities(_, _, _)
AssignCities(n, names, d) ==
    IF n = 0
    THEN <<>>
    ELSE LET acc == AssignCities(n - 1, names, d)
             city == CyclicCity(names, n - 1)
         IN  IF city \in Keys(d)
             THEN Append(acc, ValueOf(d, city))
             ELSE IF Len(d) > 0
                  THEN Append(acc, FallbackCoordinate(d))
                  ELSE acc

(***************************************************************************)
(* The script body, lines 99-205.                                          *)
(***************************************************************************)
\* An upload: files are told apart by their bytes; Spec gives each its own name.
UploadBatch(n) == [i \in 1..n |-> [name |-> i, content |-> i]]
FileCounts == 0..(MAX_FILES + MaxExtraFiles)

\* len(uploaded_files) > MAX_FILES, line 101
OverLimitOffByOne(n) == n > MAX_FILES + 1
OverLimit(n) == n > MAX_FILES

Modes == {"Pin on Map", "List of Cities"}

\* get_current_location(), lines 35-44: the IP lookup's answer or Los Angeles.
StartLocations == {LosAngeles, Sydney}

\* map_data["last_clicked"]: nothing, or a point whose longitude the map
\* reports unwrapped (the map can be panned around the world).
NoClick == <<>>
Clicks ==
    {[lat |-> p[1], lng |-> p[2] + k * 360 * Deg] :
        p \in {Quito, Sydney}, k \in {-1, 0, 1}}

\* st.slider(0.0, 50.0, 0.0, step=0.5), in half-kilometres.
SliderMaxHalfKm == 100
RadiusChoices == {0, 1, SliderMaxHalfKm}

\* if uploaded_files and final_targets, line 190
TagGateFilesOnly(fs, ts) == fs # <<>>
TagGate(fs, ts) == fs # <<>> /\ ts # <<>>

NoCall == <<>>

\* The generator starts from one seed here; SpecFn draws every seed.
AppInit ==
    /\ pc = "start"
    /\ uploaded_files = <<>>
    /\ mode = "none"
    /\ final_targets = <<>>
    /\ center = <<>>
    /\ radius = 0
    /\ rng = 0
    /\ city_names = <<>>
    /\ unique_coords = <<>>
    /\ failed_cities = <<>>
    /\ call = NoCall

\* Lines 99-103: the uploader's value and the MAX_FILES check (st.stop).
FileUploader ==
    /\ pc = "start"
    /\ \E n \in FileCounts :
         /\ uploaded_files' = UploadBatch(n)
         /\ pc' = IF OverLimit(n) THEN "stopped" ELSE "mode"
    /\ UNCHANGED <<mode, final_targets, center, radius, rng, city_names,
                   unique_coords, failed_cities, call>>
    /\ UNCHANGED <<tagVars, fnVars>>

\* Lines 105-107.
ChooseMode ==
    /\ pc = "mode"
    /\ \E m \in Modes :
         /\ mode' = m
         /\ pc' = IF m = "Pin on Map" THEN "pin" ELSE "cities"
    /\ final_targets' = <<>>
    /\ UNCHANGED <<uploaded_files, center, radius, rng, city_names,
                   unique_coords, failed_cities, call>>
    /\ UNCHANGED <<tagVars, fnVars>>

\* Lines 109-142.
PinOnMap ==
    /\ pc = "pin"
    /\ \E start \in StartLocations, click \in Clicks \cup {NoClick},
          rad \in RadiusChoices :
         LET clicked_lat == IF click # NoClick THEN click.lat ELSE start[1]
             clicked_lon == IF click # NoClick
                            THEN NormalizeLongitude(click.lng)
                            ELSE start[2]
             drawn == PinTargets(Len(uploaded_files), clicked_lat,
                                 clicked_lon, rad, rng)
         IN  /\ center' = <<clicked_lat, clicked_lon>>
             /\ radius' = rad
             /\ final_targets' = drawn.targets
             /\ rng' = drawn.rng
    /\ pc' = "gate"
    /\ UNCHANGED <<uploaded_files, mode, city_names, unique_coords,
                   failed_cities, call>>
    /\ UNCHANGED <<tagVars, fnVars>>

\* Lines 144-188.
ListOfCities ==
    /\ pc = "cities"
    /\ IF uploaded_files = <<>>
       THEN UNCHANGED <<city_names, unique_coords, failed_cities, final_targets>>
       ELSE \E names \in ParsedInputs :
              /\ city_names' = names
              /\ IF names = <<>>
                 THEN UNCHANGED <<unique_coords, failed_cities, final_targets>>
                 ELSE \E unique_cities \in SetOrders(Range(names)) :
                      \E answer \in GeoAnswers(Range(names)) :
                        LET found == Lookup(unique_cities, answer)
                        IN  /\ unique_coords' = found.coords
                            /\ failed_cities' = found.failed
                            /\ final_targets' =
                                 IF found.coords = <<>>
                                 THEN <<>>
                                 ELSE AssignCities(Len(uploaded_files), names,
                                                   found.coords)
    /\ pc' = "gate"
    /\ UNCHANGED <<uploaded_files, mode, center, radius, rng, call>>
    /\ UNCHANGED <<tagVars, fnVars>>

\* Lines 190-194: the button is offered and pressed; process_images is called.
TagButton ==
    /\ pc = "gate"
    /\ TagGate(uploaded_files, final_targets)
    /\ call' = [files |-> uploaded_files, targets |-> final_targets]
    /\ pc' = "tagging"
    /\ UNCHANGED <<uploaded_files, mode, final_targets, center, radius, rng,
                   city_names, unique_coords, failed_cities>>
    /\ UNCHANGED <<tagVars, fnVars>>

\* The run ends with no button offered, or with the button not pressed.
ScriptEnd ==
    /\ pc = "gate"
    /\ pc' = "idle"
    /\ UNCHANGED <<uploaded_files, mode, final_targets, center, radius, rng,
                   city_names, unique_coords, failed_cities, call>>
    /\ UNCHANGED <<tagVars, fnVars>>

AppNext ==
    \/ FileUploader
    \/ ChooseMode
    \/ PinOnMap
    \/ ListOfCities
    \/ TagButton
    \/ ScriptEnd

(***************************************************************************)
(* process_images, lines 46-92.                                            *)
(***************************************************************************)
\* A path in temp_dir: the file's name, and whether it carries the
\* "_original" suffix exiftool gives the backup it leaves beside a file.
\* The uploader admits only .jpg, .jpeg and .webp names (line 99).
FilePath(f) == [name |-> f.name, original |-> FALSE]
BackupPath(p) == [name |-> p.name, original |-> TRUE]
EndsWithOriginal(p) == p.original

EmptyDisk == [q \in {} |-> 0]
Put(d, p, v) == [q \in (DOMAIN d) \cup {p} |-> IF q = p THEN v ELSE d[q]]
NoGps == <<>>

\* Lines 52-56 for the first k files: a later file of the same name
\* overwrites an earlier one.
RECURSIVE WriteFiles(_, _)
WriteFiles(fs, k) ==
    IF k = 0
    THEN EmptyDisk
    ELSE Put(WriteFiles(fs, k - 1), FilePath(fs[k]),
             [content |-> fs[k].content, gps |-> NoGps])

\* Lines 63-64 and 70-73.
LatRefStrict(lat) == IF lat > 0 THEN "N" ELSE "S"
LatRef(lat) == IF lat >= 0 THEN "N" ELSE "S"
LonRef(lon) == IF lon >= 0 THEN "E" ELSE "W"
GpsTags(target) ==
    [GPSLatitude     |-> Abs(target[1]),
     GPSLatitudeRef  |-> LatRef(target[1]),
     GPSLongitude    |-> Abs(target[2]),
     GPSLongitudeRef |-> LonRef(target[2])]

\* exiftool writing tags into the file at p: the tags are set in place and
\* the untouched file is kept as p_original unless a backup is there already.
ExifWrite(d, p, tags) ==
    LET tagged == Put(d, p, [content |-> d[p].content, gps |-> tags])
    IN  IF BackupPath(p) \in DOMAIN d
        THEN tagged
        ELSE Put(tagged, BackupPath(p), d[p])

\* Lines 81-84: one entry per processed path, read from disk when zipped.
ZipEntries(paths, d) ==
    LET kept == SelectSeq(paths, LAMBDA p : ~EndsWithOriginal(p))
    IN  [k \in 1..Len(kept) |->
            [name |-> kept[k].name, content |-> d[kept[k]].content,
             gps |-> d[kept[k]].gps]]

\* try ... finally (lines 50, 89): an exception raised inside the try block
\* runs the finally clause before it leaves process_images.
OnExceptionNoFinally == "raised"
OnException == "finally"

FileNames == {"a.jpg", "b.webp"}
TagCoords == {LosAngeles, Sydney, NullIsland, Quito}
TagBatches ==
    UNION {{[i \in 1..n |-> [name |-> nm[i], content |-> i]] :
              nm \in [1..n -> FileNames]} : n \in 1..MaxTagBatch}

TagIdle ==
    /\ tpc = "off"
    /\ files = <<>>
    /\ targets = <<>>
    /\ temp_dir = FALSE
    /\ disk = EmptyDisk
    /\ next_i = 0
    /\ processed_paths = <<>>
    /\ tag_log = <<>>
    /\ zip_file = <<>>
    /\ zip_data = <<>>
    /\ exc = "none"

\* process_images is entered with one target per file (the script's gate).
TagInit ==
    /\ tpc = "call"
    /\ files \in TagBatches
    /\ targets \in [1..Len(files) -> TagCoords]
    /\ temp_dir = FALSE
    /\ disk = EmptyDisk
    /\ next_i = 0
    /\ processed_paths = <<>>
    /\ tag_log = <<>>
    /\ zip_file = <<>>
    /\ zip_data = <<>>
    /\ exc = "none"

\* Line 47, outside the try block.
Mkdtemp ==
    /\ tpc = "call"
    /\ \/ /\ temp_dir' = TRUE
          /\ tpc' = "write"
          /\ UNCHANGED exc
       \/ /\ exc' = "mkdtemp"
          /\ tpc' = "raised"
          /\ UNCHANGED temp_dir
    /\ UNCHANGED <<files, targets, disk, next_i, processed_paths, tag_log,
                   zip_file, zip_data>>
    /\ UNCHANGED <<appVars, fnVars>>

\* Lines 51-56: every upload is written, or writing file k+1 raises.
WriteUploads ==
    /\ tpc = "write"
    /\ \E k \in 0..Len(files) :
         /\ disk' = WriteFiles(files, k)
         /\ IF k = Len(files)
            THEN tpc' = "exiftool" /\ UNCHANGED exc
            ELSE tpc' = OnException /\ exc' = "write"
    /\ UNCHANGED <<files, targets, temp_dir, next_i, processed_paths, tag_log,
                   zip_file, zip_data>>
    /\ UNCHANGED <<appVars, fnVars>>

\* Line 58: the exiftool process starts, or ExifToolHelper raises.
StartExifTool ==
    /\ tpc = "exiftool"
    /\ \/ /\ tpc' = "tag"
          /\ next_i' = 1
          /\ UNCHANGED exc
       \/ /\ tpc' = OnException
          /\ exc' = "exiftool"
          /\ UNCHANGED next_i
    /\ UNCHANGED <<files, targets, temp_dir, disk, processed_paths, tag_log,
                   zip_file, zip_data>>
    /\ UNCHANGED <<appVars, fnVars>>

\* Lines 59-78, one item of file_map: set_tags succeeds, or raises and the
\* error is shown (line 78) and the loop goes on.
SetTags ==
    /\ tpc = "tag"
    /\ next_i <= Len(files)
    /\ LET file_path == FilePath(files[next_i])
           tags == GpsTags(targets[next_i])
       IN  \/ /\ disk' = ExifWrite(disk, file_path, tags)
              /\ processed_paths' = Append(processed_paths, file_path)
              /\ tag_log' = Append(tag_log, [i |-> next_i, path |-> file_path,
                                             tags |-> tags])
           \/ UNCHANGED <<disk, processed_paths, tag_log>>
    /\ next_i' = next_i + 1
    /\ tpc' = IF next_i = Len(files) THEN "zip" ELSE "tag"
    /\ UNCHANGED <<files, targets, temp_dir, zip_file, zip_data, exc>>
    /\ UNCHANGED <<appVars, fnVars>>

\* Lines 80-84.
BuildZip ==
    /\ tpc = "zip"
    /\ \/ /\ zip_file' = ZipEntries(processed_paths, disk)
          /\ tpc' = "read"
          /\ UNCHANGED exc
       \/ /\ tpc' = OnException
          /\ exc' = "zip"
          /\ UNCHANGED zip_file
    /\ UNCHANGED <<files, targets, temp_dir, disk, next_i, processed_paths,
                   tag_log, zip_data>>
    /\ UNCHANGED <<appVars, fnVars>>

\* Lines 86-87.
ReadZip ==
    /\ tpc = "read"
    /\ \/ /\ zip_data' = zip_file
          /\ tpc' = "finally"
          /\ UNCHANGED exc
       \/ /\ tpc' = OnException
          /\ exc' = "read"
          /\ UNCHANGED zip_data
    /\ UNCHANGED <<files, targets, temp_dir, disk, next_i, processed_paths,
                   tag_log, zip_file>>
    /\ UNCHANGED <<appVars, fnVars>>

\* Lines 89-92: shutil.rmtree(temp_dir), then return or re-raise.
Finally ==
    /\ tpc = "finally"
    /\ temp_dir' = FALSE
    /\ disk' = EmptyDisk
    /\ zip_file' = <<>>
    /\ tpc' = IF exc = "none" THEN "returned" ELSE "raised"
    /\ UNCHANGED <<files, targets, next_i, processed_paths, tag_log, zip_data,
                   exc>>
    /\ UNCHANGED <<appVars, fnVars>>

TagNext ==
    \/ Mkdtemp
    \/ WriteUploads
    \/ StartExifTool
    \/ SetTags
    \/ BuildZip
    \/ ReadZip
    \/ Finally

(***************************************************************************)
(* The numeric helpers on drawn inputs.                                    *)
(***************************************************************************)
RawLongitudes ==
    {d * Deg + e : d \in (-MaxRawDeg)..MaxRawDeg, e \in {-1, 0, 1}}
FnCenters == {LosAngeles, Quito, NullIsland}
FnRadii == ((-MaxNegRadius)..1) \cup {SliderMaxHalfKm}

FnArg(op, raw_lon, c, rad, n, s) ==
    [op |-> op, raw_lon |-> raw_lon, center |-> c, radius |-> rad, n |-> n,
     rng |-> s]
FnInputs ==
    {FnArg("normalize", x, NullIsland, 0, 0, 0) : x \in RawLongitudes}
    \cup {FnArg("pin", 0, c, rad, n, s) :
            c \in FnCenters, rad \in FnRadii, n \in 0..MaxPinFiles,
            s \in 0..(RngMod - 1)}
NoResult == [lon |-> 0, targets |-> <<>>, rng |-> 0]

FnIdle ==
    /\ fn_pc = "off"
    /\ fn_arg = FnArg("none", 0, NullIsland, 0, 0, 0)
    /\ fn_res = NoResult

FnInit ==
    /\ fn_pc = "input"
    /\ fn_arg \in FnInputs
    /\ fn_res = NoResult

\* Line 130 on a raw longitude.
ApplyNormalize ==
    /\ fn_pc = "input"
    /\ fn_arg.op = "normalize"
    /\ fn_res' = [NoResult EXCEPT !.lon = NormalizeLongitude(fn_arg.raw_lon)]
    /\ fn_pc' = "done"
    /\ UNCHANGED fn_arg
    /\ UNCHANGED <<appVars, tagVars>>

\* Lines 140-142 on a centre, a radius and a number of files.
ApplyPinTargets ==
    /\ fn_pc = "input"
    /\ fn_arg.op = "pin"
    /\ LET drawn == PinTargets(fn_arg.n, fn_arg.center[1], fn_arg.center[2],
                               fn_arg.radius, fn_arg.rng)
       IN  fn_res' = [NoResult EXCEPT !.targets = drawn.targets,
                                      !.rng = drawn.rng]
    /\ fn_pc' = "done"
    /\ UNCHANGED fn_arg
    /\ UNCHANGED <<appVars, tagVars>>

FnNext ==
    \/ ApplyNormalize
    \/ ApplyPinTargets

(***************************************************************************)
(* Specifications.                                                         *)
(***************************************************************************)
AppIdle ==
    /\ pc = "off"
    /\ uploaded_files = <<>>
    /\ mode = "none"
    /\ final_targets = <<>>
    /\ center = <<>>
    /\ radius = 0
    /\ rng = 0
    /\ city_names = <<>>
    /\ unique_coords = <<>>
    /\ failed_cities = <<>>
    /\ call = NoCall

Init == AppInit /\ TagIdle /\ FnIdle
Next == AppNext
Spec == Init /\ [][Next]_vars

InitTag == AppIdle /\ TagInit /\ FnIdle
SpecTag == InitTag /\ [][TagNext]_vars

InitFn == AppIdle /\ TagIdle /\ FnInit
SpecFn == InitFn /\ [][FnNext]_vars

(***************************************************************************)
(* Properties.                                                             *)
(***************************************************************************)
\* The script has run past the branch that builds final_targets.
PastTargets == pc \in {"gate", "tagging", "idle"}
CityRun == mode = "List of Cities" /\ PastTargets
NumFiles == Len(uploaded_files)
\* The name due to file index i (from 0): place_names[i mod len].
NameAt(i) == city_names[(i % Len(city_names)) + 1]
IsResolved(name) == \E k \in DOMAIN unique_coords : unique_coords[k][1] = name
ResolvedCoords == {unique_coords[k][2] : k \in DOMAIN unique_coords}
IsCoordinate(c) == DOMAIN c = 1..2 /\ c[1] \in Int /\ c[2] \in Int

C2_CyclicAssignment ==
    (CityRun /\ city_names # <<>>) =>
        \A i \in 0..(NumFiles - 1) :
            IsResolved(NameAt(i)) =>
                /\ (i + 1) \in DOMAIN final_targets
                /\ \E k \in DOMAIN unique_coords :
                     /\ unique_coords[k][1] = NameAt(i)
                     /\ final_targets[i + 1] = unique_coords[k][2]

\* C2 witness: names [a, b] resolved to {a: X, b: Y} and five files give
\* [X, Y, X, Y, X].
C2_Witness ==
    /\ CityRun
    /\ city_names = << <<"a">>, <<"b">> >>
    /\ NumFiles = 5
    /\ final_targets = <<LosAngeles, Sydney, LosAngeles, Sydney, LosAngeles>>

\* C3: in city-list mode with at least one resolved name, every file index
\* whose cyclic name did not resolve gets one coordinate of the resolved
\* mapping, the same one at every such index, and the list is complete.
C3_FallbackCoordinate ==
    (CityRun /\ city_names # <<>> /\ unique_coords # <<>>) =>
        /\ Len(final_targets) = NumFiles
        /\ \E c \in ResolvedCoords :
             \A i \in 0..(NumFiles - 1) :
                 ~IsResolved(NameAt(i)) => final_targets[i + 1] = c

\* C3 witness: two names resolved to different coordinates, a third did
\* not, and the unresolved name comes round twice.
C3_Witness ==
    /\ CityRun
    /\ Len(city_names) = 3
    /\ Cardinality(ResolvedCoords) = 2
    /\ ~IsResolved(NameAt(2))
    /\ NumFiles >= 6

\* C4: in city-list mode with at least one file the target list is empty or
\* complete, never partial; it is empty exactly when the parsed name list is
\* empty or no name resolved, and process_images is not called while it is
\* empty.  The parsed names are the trimmed, non-empty tokens.
C4_AllOrNothing ==
    (CityRun /\ NumFiles >= 1) =>
        /\ final_targets = <<>> <=>
             (city_names = <<>> \/ \A n \in Range(city_names) : ~IsResolved(n))
        /\ final_targets # <<>> => Len(final_targets) = NumFiles
        /\ pc = "tagging" => final_targets # <<>>
        /\ \A n \in Range(city_names) :
             /\ n # <<>>
             /\ n[1] # " " /\ n[Len(n)] # " "
             /\ \A k \in DOMAIN n : n[k] \notin {",", "\n"}

\* C4 witness: names were entered, none resolved, and the run ended with no
\* targets and no call of process_images.
C4_Witness ==
    /\ CityRun
    /\ pc = "idle"
    /\ NumFiles >= 1
    /\ Len(city_names) = 2
    /\ unique_coords = <<>>
    /\ Len(failed_cities) = 2
    /\ final_targets = <<>>
    /\ call = NoCall

\* The indices whose set_tags call succeeded, and the archive entry each
\* upload is due: its own name and bytes with the tags of its own target.
TaggedOk == {tag_log[k].i : k \in DOMAIN tag_log}
Count(seq, e) == Cardinality({k \in DOMAIN seq : seq[k] = e})
SignedValue(magnitude, ref) ==
    IF ref \in {"S", "W"} THEN -magnitude ELSE magnitude
DueEntry(i) ==
    [name |-> files[i].name, content |-> files[i].content,
     gps |-> [GPSLatitude     |-> Abs(targets[i][1]),
              GPSLatitudeRef  |-> IF targets[i][1] < 0 THEN "S" ELSE "N",
              GPSLongitude    |-> Abs(targets[i][2]),
              GPSLongitudeRef |-> IF targets[i][2] < 0 THEN "W" ELSE "E"]]
NamesDistinct ==
    \A i, j \in DOMAIN files : files[i].name = files[j].name => i = j

\* C5: the archive process_images returns holds exactly one entry for each
\* upload whose metadata write succeeded, with that upload's own content
\* tagged with the coordinate at its own index, and no entry for an upload
\* whose write failed; a failed write does not stop the later files.
C5_ArchiveMatchesUploads ==
    tpc = "returned" =>
        /\ Len(zip_data) = Cardinality(TaggedOk)
        /\ \A i \in TaggedOk : Count(zip_data, DueEntry(i)) = 1
        /\ \A i \in (DOMAIN files) \ TaggedOk :
             Count(zip_data, DueEntry(i)) = 0

\* C5 restricted to batches whose file names are pairwise different.
ArchiveMatchesDistinctNames ==
    NamesDistinct => C5_ArchiveMatchesUploads

\* A batch with distinct names returned after a write failed on its first
\* file and succeeded on a later one.
PartialFailureReturned ==
    /\ tpc = "returned"
    /\ NamesDistinct
    /\ 1 \notin TaggedOk
    /\ 2 \in TaggedOk

\* C6: the tags written for a target (lat, lon) are sign-magnitude:
\* GPSLatitude is |lat| with reference S exactly when lat < 0 and N
\* otherwise, GPSLongitude is |lon| with reference W exactly when lon < 0
\* and E otherwise, so the reference's sign applied to the magnitude gives
\* back lat and lon.
C6_SignMagnitude ==
    \A k \in DOMAIN tag_log :
        LET lat == targets[tag_log[k].i][1]
            lon == targets[tag_log[k].i][2]
            t == tag_log[k].tags
        IN  /\ t.GPSLatitude = (IF lat < 0 THEN -lat ELSE lat)
            /\ t.GPSLatitudeRef \in {"N", "S"}
            /\ t.GPSLatitudeRef = "S" <=> lat < 0
            /\ t.GPSLongitude = (IF lon < 0 THEN -lon ELSE lon)
            /\ t.GPSLongitudeRef \in {"E", "W"}
            /\ t.GPSLongitudeRef = "W" <=> lon < 0
            /\ SignedValue(t.GPSLatitude, t.GPSLatitudeRef) = lat
            /\ SignedValue(t.GPSLongitude, t.GPSLongitudeRef) = lon

\* C6 witness: tags were written for a southern-and-eastern target, for a
\* northern-and-western one and for (0, 0).
C6_Witness ==
    /\ Len(tag_log) = 3
    /\ targets = <<Sydney, LosAngeles, NullIsland>>
    /\ tag_log[1].tags.GPSLatitudeRef = "S"
    /\ tag_log[2].tags.GPSLongitudeRef = "W"
    /\ tag_log[3].tags.GPSLatitudeRef = "N"

\* C7: for every centre and every radius <= 0 the pin loop's calls of
\* get_random_point_in_radius each return the centre exactly and leave the
\* random generator where it was, so N files get N copies of the centre.
C7_DegenerateRadius ==
    (fn_pc = "done" /\ fn_arg.op = "pin" /\ fn_arg.radius <= 0) =>
        /\ fn_res.targets = [i \in 1..fn_arg.n |-> fn_arg.center]
        /\ fn_res.rng = fn_arg.rng

\* C7 witness: three files were pinned around Los Angeles with radius 0.
C7_Witness ==
    /\ fn_pc = "done"
    /\ fn_arg.op = "pin"
    /\ fn_arg.radius = 0
    /\ fn_arg.n = 3
    /\ fn_arg.center = LosAngeles
    /\ fn_res.targets = <<LosAngeles, LosAngeles, LosAngeles>>

C9_TempDirReleased ==
    tpc \in {"returned", "raised"} => ~temp_dir

\* C9 witness: building the archive raised after files had been written
\* and tagged, and the directory is gone.
C9_Witness ==
    /\ tpc = "raised"
    /\ exc = "zip"
    /\ processed_paths # <<>>
    /\ ~temp_dir

=============================================================================
